---- MODULE Spec2Model ----
(***************************************************************************)
(* Minimum channel-width search of the place-and-route flow:               *)
(* place_and_route and binary_search_place_and_route (trial loop,          *)
(* verification pass, exit sequence), with the placement and routing       *)
(* oracles (try_place, try_route) as the environment.                      *)
(*                                                                         *)
(* One behaviour is one call.  entry = "place_and_route" starts at the     *)
(* public entry point; entry = "binary_search" starts at the static        *)
(* function binary_search_place_and_route with router_opts of its own, so  *)
(* that its fixed-width branches (which place_and_route never reaches) are *)
(* exercised as the function's code is written.                            *)
(***************************************************************************)
EXTENDS Integers, Sequences, FiniteSets, TLC

(* ------------------------------------------------------------------ *)
(* Program constants                                                   *)
(* ------------------------------------------------------------------ *)

\* sentinel "no fixed channel width" of router_opts.fixed_channel_width
NO_FIXED_CHANNEL_WIDTH == -1

\* sentinel of low / high / final: bound not known yet
UNKNOWN == -1

\* ceiling of the unconstrained search (current > 1000 aborts)
MaxUnconstrainedWidth == 1000

\* fixed-width search aborts when current > fixed_channel_width * 4
FixedCeilingFactor == 4

\* Wneed = f(Fs) search: abort once low >= fixed_channel_width + 30
WneedSlack == 30

\* fixed-width seed: current = W + 5 * mult, and step of the Wneed search
SeedStep == 5

\* Fs floor: stop when current * 3 < Fs; Fs % 3 under bidirectional routing
FsDivisor == 3

\* scale_factor as a fraction over ScaleDen: 2 is 20/10, 1.1 is 11/10
ScaleDen == 10

ScaleDefault == 20

ScaleHint == 11

(* ------------------------------------------------------------------ *)
(* Bounds of the model                                                 *)
(* ------------------------------------------------------------------ *)

\* widths 1..FlukeMax are where a non-monotonic oracle answers freely
FlukeMax == 10

\* no search makes this many trials; the trial loop is cut off there
MaxAttempts == 20

\* the grid extents nx, ny given to init_chan are 1..MaxDim
MaxDim == 5

(* ------------------------------------------------------------------ *)
(* Input sets                                                          *)
(* ------------------------------------------------------------------ *)

Directionalities == {"UNI_DIRECTIONAL", "BI_DIRECTIONAL"}

PlaceFreqs == {"PLACE_NEVER", "PLACE_ONCE", "PLACE_ALWAYS"}

FsValues == {3, 4, 18, 39}

FixedWidths == {2, 7, 12}

NoHint == 0 - 1

Hints == {2, 10, 13}

PinCounts == {0, 3, 10}

\* threshold of a circuit that routes at no width a search can reach
Unroutable == 2 ^ 30

Thresholds == {1, 6, 7, 20, Unroutable}

PlaceChanWidths == {100}

\* the options one call can be given; an option the call never reads is held
\* at one value
OptionSets ==
    { o \in [ entry : {"place_and_route", "binary_search"},
              directionality : Directionalities,
              Fs : FsValues,
              fixed_channel_width : {NO_FIXED_CHANNEL_WIDTH} \cup FixedWidths,
              min_chan_width_hint : {NoHint} \cup Hints,
              max_pins_per_clb : PinCounts,
              verify_binary_search : BOOLEAN,
              place_freq : PlaceFreqs,
              doPlacement : BOOLEAN,
              doRouting : BOOLEAN,
              place_chan_width : PlaceChanWidths ] :
        /\ (o.entry = "binary_search") =>
              /\ o.fixed_channel_width # NO_FIXED_CHANNEL_WIDTH
              /\ o.doRouting /\ o.doPlacement
        /\ (o.fixed_channel_width # NO_FIXED_CHANNEL_WIDTH \/ ~o.doRouting) =>
              /\ o.min_chan_width_hint = NoHint
              /\ o.max_pins_per_clb = 10
        /\ (o.min_chan_width_hint # NoHint) => o.max_pins_per_clb = 10
        /\ (~o.doRouting) => ~o.verify_binary_search
        /\ (o.entry = "place_and_route"
              /\ o.fixed_channel_width # NO_FIXED_CHANNEL_WIDTH) =>
              ~o.verify_binary_search }

\* the widths below which the router has to clip the output-pin fan-out to
\* full connectivity (0: it never clips)
ClipWidths == {0, 8}

\* the routers one call can meet: success iff width >= T above flukeTop,
\* any answer at the widths 1..flukeTop; output-pin fan-out clipped at the
\* widths below clipBelow
OracleSets ==
    { r \in [ T : Thresholds \cup {FlukeMax + 1}, flukeTop : {0, FlukeMax},
              clipBelow : ClipWidths ] :
        /\ (r.flukeTop = 0) => r.T \in Thresholds
        /\ (r.flukeTop # 0) => r.T \in {FlukeMax + 1, Unroutable}
        /\ (r.clipBelow # 0) => (r.flukeTop = 0 /\ r.T < r.clipBelow) }

(* ------------------------------------------------------------------ *)
(* State                                                               *)
(* ------------------------------------------------------------------ *)

VARIABLES
    opts,             \* placer_opts / router_opts / det_routing_arch fields read
    oracle,           \* the router this call meets
    pc,               \* position in place_and_route / binary_search_place_and_route
    current, low, high, final,
    attempt_count, using_minw_hint, udsd_multiplier,
    success, prev_success, prev2_success, Fc_clipped,
    place_chan_width, \* placer_opts.place_chan_width (by-value copy)
    routing,          \* live routing: trace + clb_opins_used_locally
    best_routing,     \* best_routing + saved_clb_opins_used_locally
    placement,        \* live global placement
    chan_width_fac,   \* cfactor of the last init_chan
    rr_graph,         \* width of the last build_rr_graph of the search's exit
    channel_width,    \* g_solution_inf.channel_width
    par_success,      \* place_and_route's return value
    fatal,            \* message of the vpr_throw / assertion that ended the call
    calls,            \* the calls made to the collaborators, in order
    chan_in,          \* init_chan on its own: cfactor, chan_width_dist, nx, ny
    chan_pc,          \* init_chan on its own: position in init_chan
    chan_width        \* init_chan on its own: the global chan_width

\* the state of init_chan run on its own
chanVars == << chan_in, chan_pc, chan_width >>

\* the state of place_and_route / binary_search_place_and_route
progVars == << opts, oracle, pc, current, low, high, final, attempt_count,
               using_minw_hint, udsd_multiplier, success, prev_success,
               prev2_success, Fc_clipped, place_chan_width, routing,
               best_routing, placement, chan_width_fac, rr_graph,
               channel_width, par_success, fatal, calls >>

vars == << progVars, chanVars >>

searchVars == << current, low, high, final, attempt_count, using_minw_hint,
                 udsd_multiplier, success, prev_success, prev2_success,
                 Fc_clipped >>

(* ------------------------------------------------------------------ *)
(* Helpers                                                             *)
(* ------------------------------------------------------------------ *)

\* C++ integer division and remainder truncate toward zero
TruncDiv(a, b) == IF a >= 0 THEN a \div b ELSE 0 - ((0 - a) \div b)

TruncMod(a, b) == a - b * TruncDiv(a, b)

\* (int)(n / scale_factor), scale_factor a float holding 2 or 1.1
ScaleDown(n, scale_factor) == TruncDiv(n * ScaleDen, scale_factor)

\* (int)(n * scale_factor), with the factor left out (a faulty variant)
ScaleUp_Unscaled(n, scale_factor) == n

\* (int)(n * scale_factor)
ScaleUp(n, scale_factor) == TruncDiv(n * scale_factor, ScaleDen)

\* mutant: the rounding to the parity step is left out
RoundToParity_None(c, mult) == c

\* current = current + current % udsd_multiplier
RoundToParity(c, mult) == c + TruncMod(c, mult)

Multiplier(directionality) ==
    IF directionality = "BI_DIRECTIONAL" THEN 1 ELSE 2

Fixed == opts.fixed_channel_width # NO_FIXED_CHANNEL_WIDTH

\* the answers try_route can give at width w
RouteOutcomes(w) ==
    IF w >= 1 /\ w <= oracle.flukeTop THEN BOOLEAN ELSE {w >= oracle.T}

\* the router clipped the output-pin fan-out when it routed at width w
RouteClipped(w) == w < oracle.clipBelow

\* init_chan is not run on its own: no input, chan_width not looked at
NoChanInput == [cfactor |-> UNKNOWN]

NoChanWidth == [max |-> UNKNOWN]

NoRouting == [w |-> UNKNOWN, ok |-> FALSE, id |-> 0]

NoPlacement == [by |-> "none", w |-> UNKNOWN]

Call(op, w, ok, ph) == [op |-> op, w |-> w, ok |-> ok, ph |-> ph]

\* try_place at width w in phase ph, when the policy asks for it per trial
PlaceCalls(w, ph) ==
    IF opts.place_freq = "PLACE_ALWAYS"
    THEN << Call("try_place", w, TRUE, ph) >> ELSE << >>

PlacedAt(w) ==
    IF opts.place_freq = "PLACE_ALWAYS"
    THEN [by |-> "try_place", w |-> w] ELSE placement

\* try_route leaves its result as the live routing
Routed(w, ok, n) == [w |-> w, ok |-> ok, id |-> n]

\* mutant: the snapshot is left as it was instead of being overwritten
SaveRouting_Stale(live) == best_routing

\* save_routing: deep copy of the live routing
SaveRouting(live) == live

\* restore_routing: deep copy of the snapshot back into the live routing
RestoreRouting(saved) == saved

(* ------------------------------------------------------------------ *)
(* Initial state                                                       *)
(* ------------------------------------------------------------------ *)

Init ==
    /\ opts \in OptionSets
    /\ oracle \in OracleSets
    /\ pc = IF opts.entry = "place_and_route" THEN "par_place" ELSE "bs_entry"
    /\ current = 0 /\ low = 0 /\ high = 0 /\ final = 0
    /\ attempt_count = 0
    /\ using_minw_hint = FALSE
    /\ udsd_multiplier = 0
    /\ success = FALSE /\ prev_success = FALSE /\ prev2_success = FALSE
    /\ Fc_clipped = FALSE
    /\ place_chan_width = opts.place_chan_width
    /\ routing = NoRouting
    /\ best_routing = NoRouting
    /\ placement = NoPlacement
    /\ chan_width_fac = UNKNOWN
    /\ rr_graph = UNKNOWN
    /\ channel_width = UNKNOWN
    /\ par_success = FALSE
    /\ fatal = ""
    /\ calls = << >>
    /\ chan_in = NoChanInput
    /\ chan_pc = "idle"
    /\ chan_width = NoChanWidth

(* ------------------------------------------------------------------ *)
(* place_and_route                                                     *)
(* ------------------------------------------------------------------ *)

\* read the placement from a file, or run the placer once
PAR_Place ==
    /\ pc = "par_place"
    /\ IF ~opts.doPlacement \/ opts.place_freq = "PLACE_NEVER"
       THEN /\ placement' = [by |-> "read_place", w |-> UNKNOWN]
            /\ calls' = Append(calls, Call("read_place", UNKNOWN, TRUE, "par"))
       ELSE /\ placement' = [by |-> "try_place", w |-> place_chan_width]
            /\ calls' = calls \o
                 << Call("try_place", place_chan_width, TRUE, "par"),
                    Call("print_place", place_chan_width, TRUE, "par") >>
    /\ pc' = "par_route"
    /\ UNCHANGED << chanVars, opts, oracle, searchVars, place_chan_width, routing,
                    best_routing, chan_width_fac, rr_graph, channel_width,
                    par_success, fatal >>

\* routing disabled: build the graph at a fixed width, if any, and return true
PAR_NoRouting ==
    /\ pc = "par_route"
    /\ ~opts.doRouting
    /\ calls' = IF Fixed
                THEN Append(calls, Call("try_graph", opts.fixed_channel_width,
                                        TRUE, "par"))
                ELSE calls
    /\ par_success' = TRUE
    /\ pc' = "par_done"
    /\ UNCHANGED << chanVars, opts, oracle, searchVars, place_chan_width, routing,
                    best_routing, placement, chan_width_fac, rr_graph,
                    channel_width, fatal >>

\* no fixed width: binary search for the minimum width
PAR_Search ==
    /\ pc = "par_route"
    /\ opts.doRouting
    /\ ~Fixed
    /\ pc' = "bs_entry"
    /\ UNCHANGED << chanVars, opts, oracle, searchVars, place_chan_width, routing,
                    best_routing, placement, chan_width_fac, rr_graph,
                    channel_width, par_success, fatal, calls >>

\* mutant: the parity check is made for the wrong directionality
OddFixedWidth_WrongDir(o) ==
    /\ o.directionality = "BI_DIRECTIONAL"
    /\ TruncMod(o.fixed_channel_width, 2) # 0

\* the fixed width is odd under unidirectional routing
OddFixedWidth(o) ==
    /\ o.directionality = "UNI_DIRECTIONAL"
    /\ TruncMod(o.fixed_channel_width, 2) # 0

\* fixed width, odd under unidirectional routing: vpr_throw
PAR_FixedOddThrow ==
    /\ pc = "par_route"
    /\ opts.doRouting
    /\ Fixed
    /\ OddFixedWidth(opts)
    /\ channel_width' = opts.fixed_channel_width
    /\ fatal' = "Given odd chan width for udsd architecture"
    /\ pc' = "fatal"
    /\ UNCHANGED << chanVars, opts, oracle, searchVars, place_chan_width, routing,
                    best_routing, placement, chan_width_fac, rr_graph,
                    par_success, calls >>

\* the calls of the one-pass route, with the routing checked and printed
\* whatever the router answered (a faulty variant)
FixedRouteCalls_AlwaysChecks(w, ok) ==
    << Call("try_route", w, ok, "par"),
       Call("check_route", w, TRUE, "par"),
       Call("print_route", w, TRUE, "par") >>

\* the calls of the one-pass route at width w: the routing is checked and
\* printed when the router succeeded
FixedRouteCalls(w, ok) ==
    << Call("try_route", w, ok, "par") >> \o
    (IF ok THEN << Call("check_route", w, TRUE, "par"),
                   Call("print_route", w, TRUE, "par") >>
           ELSE << >>)

\* fixed width: one route at that width, checked and printed when it succeeded
PAR_FixedRoute ==
    /\ pc = "par_route"
    /\ opts.doRouting
    /\ Fixed
    /\ ~OddFixedWidth(opts)
    /\ channel_width' = opts.fixed_channel_width
    /\ \E ok \in RouteOutcomes(opts.fixed_channel_width) :
         /\ routing' = Routed(opts.fixed_channel_width, ok, Len(calls) + 1)
         /\ calls' = calls \o FixedRouteCalls(opts.fixed_channel_width, ok)
         /\ par_success' = ok
    /\ pc' = "par_done"
    /\ UNCHANGED << chanVars, opts, oracle, searchVars, place_chan_width, best_routing,
                    placement, chan_width_fac, rr_graph, fatal >>

\* success of place_and_route after a search, with -1 taken for a width (a
\* faulty variant)
SearchSucceeded_NonZero(w) == w # 0

\* success of place_and_route after a search: the returned width is positive
SearchSucceeded(w) == w > 0

\* the search returned: record the width, success iff it is positive
PAR_SearchReturn ==
    /\ pc = "bs_return"
    /\ opts.entry = "place_and_route"
    /\ channel_width' = final
    /\ par_success' = SearchSucceeded(final)
    /\ pc' = "par_done"
    /\ UNCHANGED << chanVars, opts, oracle, searchVars, place_chan_width, routing,
                    best_routing, placement, chan_width_fac, rr_graph, fatal,
                    calls >>

(* ------------------------------------------------------------------ *)
(* binary_search_place_and_route: initialization                       *)
(* ------------------------------------------------------------------ *)

\* the first width tried, with the pin count rounded up to even under
\* unidirectional routing only (a faulty variant)
SeedCurrent_RoundsUnidirOnly(o) ==
    IF o.fixed_channel_width # NO_FIXED_CHANNEL_WIDTH
    THEN o.fixed_channel_width + SeedStep * Multiplier(o.directionality)
    ELSE IF o.min_chan_width_hint > 0
         THEN o.min_chan_width_hint
         ELSE o.max_pins_per_clb
                + TruncMod(o.max_pins_per_clb, Multiplier(o.directionality))

\* the first width tried
SeedCurrent(o) ==
    IF o.fixed_channel_width # NO_FIXED_CHANNEL_WIDTH
    THEN o.fixed_channel_width + SeedStep * Multiplier(o.directionality)
    ELSE IF o.min_chan_width_hint > 0
         THEN o.min_chan_width_hint
         ELSE o.max_pins_per_clb + TruncMod(o.max_pins_per_clb, 2)

\* the first lower bound
SeedLow(o) ==
    IF o.fixed_channel_width # NO_FIXED_CHANNEL_WIDTH
    THEN o.fixed_channel_width - 1 * Multiplier(o.directionality)
    ELSE UNKNOWN

SeedUsingHint(o) ==
    /\ o.fixed_channel_width = NO_FIXED_CHANNEL_WIDTH
    /\ o.min_chan_width_hint > 0

\* mutant: the parity check of the first width is left out
EntryThrow_FsOnly(o) ==
    IF o.directionality # "UNI_DIRECTIONAL" /\ TruncMod(o.Fs, FsDivisor) # 0
    THEN "Fs must be three in bidirectional mode"
    ELSE ""

\* the constraint check on entry: the vpr_throw it ends in, or "" when it passes
EntryThrow(o) ==
    IF o.directionality = "UNI_DIRECTIONAL"
    THEN IF TruncMod(SeedCurrent(o), 2) # 0
         THEN "Tried odd chan width in uni-directional routing architecture"
         ELSE ""
    ELSE IF TruncMod(o.Fs, FsDivisor) # 0
         THEN "Fs must be three in bidirectional mode"
         ELSE ""

BS_SeedVars ==
    /\ udsd_multiplier' = Multiplier(opts.directionality)
    /\ current' = SeedCurrent(opts)
    /\ low' = SeedLow(opts)
    /\ using_minw_hint' = SeedUsingHint(opts)
    /\ best_routing' = NoRouting
    /\ UNCHANGED << chanVars, opts, oracle, success, prev_success, prev2_success,
                    Fc_clipped, place_chan_width, routing, placement,
                    chan_width_fac, rr_graph, channel_width, par_success,
                    calls >>

\* entry rejected: odd width under unidirectional routing, or Fs % 3 # 0
BS_EntryThrow ==
    /\ pc = "bs_entry"
    /\ EntryThrow(opts) # ""
    /\ BS_SeedVars
    /\ fatal' = EntryThrow(opts)
    /\ pc' = "fatal"
    /\ UNCHANGED << high, final, attempt_count >>

\* VTR_ASSERT(current > 0) fails
BS_EntryAssert ==
    /\ pc = "bs_entry"
    /\ EntryThrow(opts) = ""
    /\ ~(SeedCurrent(opts) > 0)
    /\ BS_SeedVars
    /\ fatal' = "VTR_ASSERT(current > 0)"
    /\ pc' = "fatal"
    /\ UNCHANGED << high, final, attempt_count >>

\* entry accepted: both upper bound and result unknown, no attempt made
BS_Entry ==
    /\ pc = "bs_entry"
    /\ EntryThrow(opts) = ""
    /\ SeedCurrent(opts) > 0
    /\ BS_SeedVars
    /\ high' = UNKNOWN
    /\ final' = UNKNOWN
    /\ attempt_count' = 0
    /\ pc' = "loop"
    /\ UNCHANGED fatal

(* ------------------------------------------------------------------ *)
(* binary_search_place_and_route: trial loop                           *)
(* ------------------------------------------------------------------ *)

\* mutant: the ceiling guard is left out
OverCeiling_Never(c, o) == FALSE

\* mutant: the ceiling is checked in fixed-width mode only
OverCeiling_FixedOnly(c, o) ==
    /\ o.fixed_channel_width # NO_FIXED_CHANNEL_WIDTH
    /\ c > o.fixed_channel_width * FixedCeilingFactor

\* the ceiling of the unconstrained search multiplied by the factor of the
\* fixed-width one (a faulty variant)
OverCeiling_FactorInBothModes(c, o) ==
    IF o.fixed_channel_width # NO_FIXED_CHANNEL_WIDTH
    THEN c > o.fixed_channel_width * FixedCeilingFactor
    ELSE c > MaxUnconstrainedWidth * FixedCeilingFactor

\* the guard at the top of an iteration: the width is beyond the ceiling
OverCeiling(c, o) ==
    IF o.fixed_channel_width # NO_FIXED_CHANNEL_WIDTH
    THEN c > o.fixed_channel_width * FixedCeilingFactor
    ELSE c > MaxUnconstrainedWidth

\* the width cannot satisfy the switch-block fan-out
BelowFs(c, o) == (c * FsDivisor) < o.Fs

\* scale_factor of the successful branch, 1.1 after every success of a
\* hint-seeded search (a faulty variant)
SuccessScale_AnyAttempt(hint, attempts) ==
    IF hint THEN ScaleHint ELSE ScaleDefault

\* scale_factor of the successful branch: 1.1 for the first attempt of a
\* hint-seeded search, 2 otherwise
SuccessScale(hint, attempts) ==
    IF hint /\ attempts = 1 THEN ScaleHint ELSE ScaleDefault

\* mutant: the next width is taken from the upper bound alone, also when the
\* lower bound is known
OnSuccess_IgnoresLow(c, lo, hi, fin, hint, attempts, mult) ==
    LET fin1 == IF c = hi THEN c ELSE fin
        hi1 == c
        sf == SuccessScale(hint, attempts)
        fin2 == IF (hi1 - lo) <= 1 * mult THEN hi1 ELSE fin1
        cur1 == ScaleDown(hi1, sf)
    IN  [low |-> lo, high |-> hi1, final |-> fin2,
         current |-> RoundToParity(cur1, mult), save |-> TRUE, throw |-> ""]

\* bounds after a trial at width c that counted as a success
\* (attempts is attempt_count after its increment)
OnSuccess(c, lo, hi, fin, hint, attempts, mult) ==
    LET fin1 == IF c = hi THEN c ELSE fin
        hi1 == c
        sf == SuccessScale(hint, attempts)
        fin2 == IF (hi1 - lo) <= 1 * mult THEN hi1 ELSE fin1
        cur1 == IF lo # UNKNOWN THEN ScaleDown(hi1 + lo, sf)
                                ELSE ScaleDown(hi1, sf)
    IN  [low |-> lo, high |-> hi1, final |-> fin2,
         current |-> RoundToParity(cur1, mult), save |-> TRUE, throw |-> ""]

\* the Wneed = f(Fs) search goes on at any lower bound (a faulty variant)
WneedInReach_Always(lo, o) == TRUE

\* the Wneed = f(Fs) search goes on: the lower bound is below W + 30
WneedInReach(lo, o) == lo < o.fixed_channel_width + WneedSlack

\* bounds after a trial at width c that counted as a failure
OnFailure(c, lo, hi, fin, mult, o) ==
    LET lo1 == c
    IN  IF hi # UNKNOWN
        THEN [low |-> lo1, high |-> hi,
              final |-> IF (hi - lo1) <= 1 * mult THEN hi ELSE fin,
              current |-> RoundToParity(ScaleDown(hi + lo1, ScaleDefault), mult),
              save |-> FALSE, throw |-> ""]
        ELSE IF o.fixed_channel_width # NO_FIXED_CHANNEL_WIDTH
             THEN IF WneedInReach(lo1, o)
                  THEN [low |-> lo1, high |-> hi, final |-> fin,
                        current |-> RoundToParity(lo1 + SeedStep * mult, mult),
                        save |-> FALSE, throw |-> ""]
                  ELSE [low |-> lo1, high |-> hi, final |-> fin,
                        current |-> c, save |-> FALSE,
                        throw |-> "Wneed = f(Fs) search found exceedingly large Wneed"]
             ELSE [low |-> lo1, high |-> hi, final |-> fin,
                   current |-> RoundToParity(ScaleUp(lo1, ScaleDefault), mult),
                   save |-> FALSE, throw |-> ""]

\* the bound update of one iteration, with the routing saved after a failure
\* too (a faulty variant)
TrialUpdate_FailureSaves(ok, clipped, c, lo, hi, fin, hint, attempts, mult, o) ==
    IF ok /\ ~clipped
    THEN OnSuccess(c, lo, hi, fin, hint, attempts, mult)
    ELSE [OnFailure(c, lo, hi, fin, mult, o) EXCEPT !.save = TRUE]

\* the bound update of one iteration, from the router's answer
TrialUpdate(ok, clipped, c, lo, hi, fin, hint, attempts, mult, o) ==
    IF ok /\ ~clipped
    THEN OnSuccess(c, lo, hi, fin, hint, attempts, mult)
    ELSE OnFailure(c, lo, hi, fin, mult, o)

\* the width is beyond the ceiling: vpr_throw before any work at it
BS_CeilingThrow ==
    /\ pc = "loop"
    /\ OverCeiling(current, opts)
    /\ fatal' = IF Fixed
                THEN "unroutable with the current router options"
                ELSE "requires a channel width above 1000"
    /\ pc' = "fatal"
    /\ UNCHANGED << chanVars, opts, oracle, searchVars, place_chan_width, routing,
                    best_routing, placement, chan_width_fac, rr_graph,
                    channel_width, par_success, calls >>

\* final after the Fs stop, with final left alone (a faulty variant)
FsStopFinal_KeepsFinal(hi, fin) == fin

\* final after the Fs stop, with 0 for "no width found" (a faulty variant)
FsStopFinal_ZeroForNone(hi, fin) == IF hi = UNKNOWN THEN 0 ELSE hi

\* final after the Fs stop: the upper bound found so far
FsStopFinal(hi, fin) == hi

\* the width is below Fs: stop the search with the upper bound found so far
BS_FsBreak ==
    /\ pc = "loop"
    /\ ~OverCeiling(current, opts)
    /\ BelowFs(current, opts)
    /\ final' = FsStopFinal(high, final)
    /\ pc' = "after_loop"
    /\ UNCHANGED << chanVars, opts, oracle, current, low, high, attempt_count,
                    using_minw_hint, udsd_multiplier, success, prev_success,
                    prev2_success, Fc_clipped, place_chan_width, routing,
                    best_routing, placement, chan_width_fac, rr_graph,
                    channel_width, par_success, fatal, calls >>

\* one trial: place (policy "always"), route, update the bounds, round
BS_Trial ==
    /\ pc = "loop"
    /\ attempt_count < MaxAttempts
    /\ ~OverCeiling(current, opts)
    /\ ~BelowFs(current, opts)
    /\ \E ok \in RouteOutcomes(current) :
         LET n == Len(calls) + Len(PlaceCalls(current, "loop")) + 1
             live == Routed(current, ok, n)
             u == TrialUpdate(ok, Fc_clipped, current, low, high, final,
                              using_minw_hint, attempt_count + 1,
                              udsd_multiplier, opts)
         IN  /\ place_chan_width' = IF opts.place_freq = "PLACE_ALWAYS"
                                    THEN current ELSE place_chan_width
             /\ placement' = PlacedAt(current)
             /\ routing' = live
             /\ attempt_count' = attempt_count + 1
             /\ success' = (ok /\ ~Fc_clipped)
             /\ low' = u.low
             /\ high' = u.high
             /\ final' = u.final
             /\ current' = u.current
             /\ best_routing' = IF u.save THEN SaveRouting(live)
                                          ELSE best_routing
             /\ calls' = calls \o PlaceCalls(current, "loop") \o
                   << Call("try_route", current, ok, "loop") >> \o
                   (IF u.save THEN << Call("save_routing", current, TRUE, "loop") >>
                              ELSE << >>)
             /\ fatal' = u.throw
             /\ pc' = IF u.throw # "" THEN "fatal"
                      ELSE IF u.final = UNKNOWN THEN "loop" ELSE "after_loop"
    /\ UNCHANGED << chanVars, opts, oracle, using_minw_hint, udsd_multiplier,
                    prev_success, prev2_success, Fc_clipped, chan_width_fac,
                    rr_graph, channel_width, par_success >>

(* ------------------------------------------------------------------ *)
(* binary_search_place_and_route: verification pass                    *)
(* ------------------------------------------------------------------ *)

\* the first width of the verification pass, one below final (a faulty variant)
FirstProbe_OneBelow(fin) == fin - 1

\* the first width the verification pass probes
FirstProbe(fin) == fin - 2

\* the step between two probes
ProbeStep(directionality) ==
    IF directionality = "UNI_DIRECTIONAL" THEN 2 ELSE 1

\* the verification loop stops at the first failed probe (a faulty variant)
ProbeAllowed_OneFailureStops(c, prev2, prev, o) ==
    /\ prev
    /\ ~(o.fixed_channel_width # NO_FIXED_CHANNEL_WIDTH
           /\ c < o.fixed_channel_width)
    /\ ~(c < 1)

\* the verification loop runs one more probe at width c
ProbeAllowed(c, prev2, prev, o) ==
    /\ prev2 \/ prev
    /\ ~(o.fixed_channel_width # NO_FIXED_CHANNEL_WIDTH
           /\ c < o.fixed_channel_width)
    /\ ~(c < 1)

\* the trial loop is over: start the verification pass, or go to the exit
BS_AfterLoop ==
    /\ pc = "after_loop"
    /\ IF opts.verify_binary_search
       THEN /\ prev_success' = TRUE
            /\ prev2_success' = TRUE
            /\ current' = FirstProbe(final)
            /\ pc' = "verify"
       ELSE /\ UNCHANGED << prev_success, prev2_success, current >>
            /\ pc' = "exit"
    /\ UNCHANGED << chanVars, opts, oracle, low, high, final, attempt_count,
                    using_minw_hint, udsd_multiplier, success, Fc_clipped,
                    place_chan_width, routing, best_routing, placement,
                    chan_width_fac, rr_graph, channel_width, par_success,
                    fatal, calls >>

\* one probe: place (policy "always"), route, keep a success, step down
BS_VerifyProbe ==
    /\ pc = "verify"
    /\ ProbeAllowed(current, prev2_success, prev_success, opts)
    /\ \E ok \in RouteOutcomes(current) :
         LET n == Len(calls) + Len(PlaceCalls(current, "verify")) + 1
             live == Routed(current, ok, n)
             kept == ok /\ (Fc_clipped = FALSE)
         IN  /\ place_chan_width' = IF opts.place_freq = "PLACE_ALWAYS"
                                    THEN current ELSE place_chan_width
             /\ placement' = PlacedAt(current)
             /\ routing' = live
             /\ success' = ok
             /\ final' = IF kept THEN current ELSE final
             /\ best_routing' = IF kept THEN SaveRouting(live) ELSE best_routing
             /\ calls' = calls \o PlaceCalls(current, "verify") \o
                   << Call("try_route", current, ok, "verify") >> \o
                   (IF kept
                    THEN << Call("save_routing", current, TRUE, "verify") >> \o
                         (IF opts.place_freq = "PLACE_ALWAYS"
                          THEN << Call("print_place", current, TRUE, "verify") >>
                          ELSE << >>)
                    ELSE << >>)
             /\ prev2_success' = prev_success
             /\ prev_success' = ok
             /\ current' = current - ProbeStep(opts.directionality)
    /\ UNCHANGED << chanVars, opts, oracle, low, high, attempt_count, using_minw_hint,
                    udsd_multiplier, Fc_clipped, chan_width_fac, rr_graph,
                    channel_width, par_success, fatal, pc >>

\* two probes in a row failed, or the floor is reached
BS_VerifyStop ==
    /\ pc = "verify"
    /\ ~ProbeAllowed(current, prev2_success, prev_success, opts)
    /\ pc' = "exit"
    /\ UNCHANGED << chanVars, opts, oracle, searchVars, place_chan_width, routing,
                    best_routing, placement, chan_width_fac, rr_graph,
                    channel_width, par_success, fatal, calls >>

(* ------------------------------------------------------------------ *)
(* binary_search_place_and_route: exit sequence                        *)
(* ------------------------------------------------------------------ *)

\* the exit sequence with the snapshot restored before the graph is rebuilt (a
\* faulty variant)
ExitCalls_RestoreFirst(fin, saved) ==
    << Call("init_chan", fin, TRUE, "exit"),
       Call("restore_routing", saved, TRUE, "exit"),
       Call("free_rr_graph", fin, TRUE, "exit"),
       Call("build_rr_graph", fin, TRUE, "exit"),
       Call("check_route", fin, TRUE, "exit"),
       Call("print_route", fin, TRUE, "exit") >>

\* the exit sequence with the restore left out (a faulty variant)
ExitCalls_NoRestore(fin, saved) ==
    << Call("init_chan", fin, TRUE, "exit"),
       Call("free_rr_graph", fin, TRUE, "exit"),
       Call("build_rr_graph", fin, TRUE, "exit"),
       Call("check_route", fin, TRUE, "exit"),
       Call("print_route", fin, TRUE, "exit") >>

\* the calls of the exit sequence: width fin, snapshot saved at width saved
ExitCalls(fin, saved) ==
    << Call("init_chan", fin, TRUE, "exit"),
       Call("free_rr_graph", fin, TRUE, "exit"),
       Call("build_rr_graph", fin, TRUE, "exit"),
       Call("restore_routing", saved, TRUE, "exit"),
       Call("check_route", fin, TRUE, "exit"),
       Call("print_route", fin, TRUE, "exit") >>

\* init_chan(final), rebuild the graph, restore the best routing, check it
BS_Exit ==
    /\ pc = "exit"
    /\ chan_width_fac' = final
    /\ rr_graph' = final
    /\ routing' = RestoreRouting(best_routing)
    /\ calls' = calls \o ExitCalls(final, best_routing.w)
    /\ pc' = "bs_return"
    /\ UNCHANGED << chanVars, opts, oracle, searchVars, place_chan_width, best_routing,
                    placement, channel_width, par_success, fatal >>

(* ------------------------------------------------------------------ *)
(* Specification                                                       *)
(* ------------------------------------------------------------------ *)

Next ==
    \/ PAR_Place
    \/ PAR_NoRouting
    \/ PAR_Search
    \/ PAR_FixedOddThrow
    \/ PAR_FixedRoute
    \/ PAR_SearchReturn
    \/ BS_EntryThrow
    \/ BS_EntryAssert
    \/ BS_Entry
    \/ BS_CeilingThrow
    \/ BS_FsBreak
    \/ BS_Trial
    \/ BS_AfterLoop
    \/ BS_VerifyProbe
    \/ BS_VerifyStop
    \/ BS_Exit

Spec == Init /\ [][Next]_vars

\* the call is sequential code: a step that can be taken is taken
LiveSpec == Init /\ [][Next]_vars /\ WF_vars(Next)

\* the call has ended: returned, or aborted by a vpr_throw / assertion
Returned ==
    \/ pc = "par_done"
    \/ (pc = "bs_return" /\ opts.entry = "binary_search")

Aborted == pc = "fatal"

TypeOK ==
    /\ opts \in OptionSets
    /\ oracle \in OracleSets
    /\ pc \in {"par_place", "par_route", "par_done", "bs_entry", "loop",
               "after_loop", "verify", "exit", "bs_return", "fatal"}
    /\ current \in Int /\ low \in Int /\ high \in Int /\ final \in Int
    /\ Fc_clipped = FALSE

(* ------------------------------------------------------------------ *)
(* init_chan and comp_width: numbers                                   *)
(* ------------------------------------------------------------------ *)

\* The float fields of the architecture (chan_width_io, peak, width, xpeak,
\* dc) are multiples of 1/Grain, written as integers: 1.0 is Grain.  With such
\* values the float products and sums below are exact.
Grain == 2 ^ 2

\* Positions across the chip and the separation are floats in [0, 1], written
\* as integers in units of 2^-28: 1.0 is One.
One == 2 ^ 28

\* 1.0 / 0.0, larger than every finite value compared with it
Infinity == 2 ^ 30

OPEN == -1

INT_MAX == 2147483647

INT_MIN == 0 - 2147483647 - 1

Abs(a) == IF a < 0 THEN 0 - a ELSE a

Max(a, b) == IF a > b THEN a ELSE b

Min(a, b) == IF a < b THEN a ELSE b

\* the spacing of the floats around the magnitude a (24-bit significand)
Ulp(a) ==
    IF a < 2 ^ 24 THEN 1
    ELSE IF a < 2 ^ 25 THEN 2
    ELSE IF a < 2 ^ 26 THEN 4
    ELSE IF a < 2 ^ 27 THEN 8
    ELSE IF a < 2 ^ 28 THEN 16
    ELSE 32

\* num / den (both >= 0, den > 0) rounded to the nearest multiple of u, ties
\* to the even multiple
RoundToEven(num, den, u) ==
    LET q == num \div (den * u)
        r == num % (den * u)
    IN  IF 2 * r < den * u THEN q * u
        ELSE IF 2 * r > den * u THEN (q + 1) * u
        ELSE IF q % 2 = 0 THEN q * u ELSE (q + 1) * u

\* the float nearest to the value v
Fl32(v) ==
    IF v >= 0 THEN RoundToEven(v, 1, Ulp(v))
    ELSE 0 - RoundToEven(0 - v, 1, Ulp(0 - v))

\* the float quotient (float) i / (float) n, 0 <= i <= n, n > 0
Fl32Div(i, n) == RoundToEven(i * One, n, Ulp((i * One) \div n))

\* a field of the architecture as a position
Fine(a) == a * (One \div Grain)

\* (int) (cfactor * val), the product cut instead of rounded (a faulty variant)
RoundHalfUp_Truncates(cfactor, val) == TruncDiv(cfactor * val, Grain)

\* (int) floor(cfactor * val + 0.5), val a multiple of 1/Grain
RoundHalfUp(cfactor, val) == (2 * cfactor * val + Grain) \div (2 * Grain)

(* ------------------------------------------------------------------ *)
(* init_chan and comp_width                                            *)
(* ------------------------------------------------------------------ *)

\* the width factors init_chan is called with: final of a search, -1 included
CFactors == {0 - 1, 1, 2, 3}

\* chan_width_io: 0, 0.25, 0.5, 1.5
IoWidths == {0, 1, 2, 6}

\* the grid extents nx, ny
Dims == 1 .. MaxDim

\* enum e_stat, and a value outside it
StatKinds == {"UNIFORM", "GAUSSIAN", "PULSE", "DELTA"}

\* the channel distributions t_chan of one axis
Profiles ==
    { [type |-> "UNIFORM", peak |-> 4, width |-> 0, xpeak |-> 0, dc |-> 0],
      [type |-> "UNIFORM", peak |-> 0, width |-> 0, xpeak |-> 0, dc |-> 4],
      [type |-> "PULSE", peak |-> 4, width |-> 2, xpeak |-> 2, dc |-> 1],
      [type |-> "DELTA", peak |-> 8, width |-> 0, xpeak |-> 2, dc |-> 0],
      [type |-> "GAUSSIAN", peak |-> 2, width |-> 1, xpeak |-> 2, dc |-> 0],
      [type |-> "OTHER", peak |-> 4, width |-> 0, xpeak |-> 0, dc |-> 0] }

\* the calls of init_chan: cfactor, chan_width_dist, and the globals nx, ny
ChanInputs ==
    [ cfactor : CFactors,
      chan_width_io : IoWidths,
      chan_x_dist : Profiles,
      chan_y_dist : Profiles,
      nx : Dims,
      ny : Dims ]

\* comp_width for the distributions it computes in closed form: the relative
\* channel density at position x (the exponential of GAUSSIAN is not computed
\* here, see GaussianWidths)
comp_width(chan, x, separation) ==
    CASE chan.type = "UNIFORM" -> chan.peak
      [] chan.type = "PULSE" ->
           (IF 2 * Abs(Fl32(x - Fine(chan.xpeak))) > Fine(chan.width)
            THEN 0 ELSE chan.peak) + chan.dc
      [] chan.type = "DELTA" ->
           (IF /\ 2 * Fl32(x - Fine(chan.xpeak)) > 0 - separation
               /\ 2 * Fl32(x - Fine(chan.xpeak)) <= separation
            THEN chan.peak ELSE 0) + chan.dc
      [] OTHER -> OPEN * Grain

\* the widths (int) floor(cfactor * comp_width + 0.5) a GAUSSIAN distribution
\* can give: peak + dc where x = xpeak, and elsewhere peak * e + dc for some e
\* in [0, 1]
GaussianWidths(cfactor, chan, x) ==
    IF x = Fine(chan.xpeak)
    THEN {RoundHalfUp(cfactor, chan.peak + chan.dc)}
    ELSE Min(RoundHalfUp(cfactor, chan.dc),
             RoundHalfUp(cfactor, chan.peak + chan.dc)) ..
         Max(RoundHalfUp(cfactor, chan.dc),
             RoundHalfUp(cfactor, chan.peak + chan.dc))

\* the widths one interior channel can get: no zero width channels
InteriorWidths(cfactor, chan, x, separation) ==
    IF chan.type = "GAUSSIAN"
    THEN { Max(w, 1) : w \in GaussianWidths(cfactor, chan, x) }
    ELSE { Max(RoundHalfUp(cfactor, comp_width(chan, x, separation)), 1) }

\* the distance between two channels, 1.0 / (n - 2.0), for the extent n > 1
Separation(n) == IF n = 2 THEN Infinity ELSE Fl32Div(1, n - 2)

\* the position of the interior channel k (1 <= k <= n - 1) of the extent n
Position(k, n) == IF k = 1 THEN 0 ELSE Fl32Div(k - 1, n - 2)

\* the io channel width, with 0 for a product that rounds below 1 left as it
\* is (a faulty variant)
IoWidth_NoFloor(cfactor, chan_width_io) == RoundHalfUp(cfactor, chan_width_io)

\* the io channel width: no zero width channels
IoWidth(cfactor, chan_width_io) ==
    LET nio == RoundHalfUp(cfactor, chan_width_io)
    IN  IF nio = 0 THEN 1 ELSE nio

\* the lists an interior of extent n can be filled with, given the list so
\* far: channels 1 .. n - 1 from the distribution, nothing when n = 1
FilledLists(list, cfactor, chan, n) ==
    IF n > 1
    THEN { [ k \in 0 .. n |-> IF k \in 1 .. (n - 1) THEN f[k] ELSE list[k] ] :
             f \in { g \in [ 1 .. (n - 1) ->
                              UNION { InteriorWidths(cfactor, chan,
                                        Position(k, n), Separation(n)) :
                                      k \in 1 .. (n - 1) } ] :
                      \A k \in 1 .. (n - 1) :
                        g[k] \in InteriorWidths(cfactor, chan, Position(k, n),
                                                Separation(n)) } }
    ELSE {list}

\* init_chan is called: chan_width holds whatever an earlier call left
ChanInit ==
    /\ opts = CHOOSE o \in OptionSets : TRUE
    /\ oracle = CHOOSE r \in OracleSets : TRUE
    /\ pc = "init_chan"
    /\ current = 0 /\ low = 0 /\ high = 0 /\ final = 0
    /\ attempt_count = 0
    /\ using_minw_hint = FALSE
    /\ udsd_multiplier = 0
    /\ success = FALSE /\ prev_success = FALSE /\ prev2_success = FALSE
    /\ Fc_clipped = FALSE
    /\ place_chan_width = opts.place_chan_width
    /\ routing = NoRouting
    /\ best_routing = NoRouting
    /\ placement = NoPlacement
    /\ chan_width_fac = UNKNOWN
    /\ rr_graph = UNKNOWN
    /\ channel_width = UNKNOWN
    /\ par_success = FALSE
    /\ fatal = ""
    /\ calls = << >>
    /\ chan_in \in ChanInputs
    /\ chan_pc = "io"
    /\ chan_width = [x_list |-> [k \in 0 .. chan_in.ny |-> 0],
                     y_list |-> [k \in 0 .. chan_in.nx |-> 0],
                     max |-> 0, x_max |-> 0, y_max |-> 0,
                     x_min |-> 0, y_min |-> 0]

\* io channel widths: both ends of both lists
IC_IoChannels ==
    /\ chan_pc = "io"
    /\ LET nio == IoWidth(chan_in.cfactor, chan_in.chan_width_io)
       IN  chan_width' =
             [chan_width EXCEPT
                !.x_list = [k \in 0 .. chan_in.ny |->
                              IF k \in {0, chan_in.ny} THEN nio ELSE @[k]],
                !.y_list = [k \in 0 .. chan_in.nx |->
                              IF k \in {0, chan_in.nx} THEN nio ELSE @[k]]]
    /\ chan_pc' = "x_list"
    /\ UNCHANGED << progVars, chan_in >>

\* the default branch of comp_width's switch, returning OPEN instead of
\* throwing (a faulty variant)
UnknownKind_Never(chan) == FALSE

\* the default branch of comp_width's switch: the type is none of the cases
UnknownKind(chan) == chan.type \notin StatKinds

\* comp_width is reached with a type outside e_stat: vpr_throw
IC_Throw ==
    /\ \/ /\ chan_pc = "x_list"
          /\ chan_in.ny > 1
          /\ UnknownKind(chan_in.chan_x_dist)
       \/ /\ chan_pc = "y_list"
          /\ chan_in.nx > 1
          /\ UnknownKind(chan_in.chan_y_dist)
    /\ chan_pc' = "fatal"
    /\ UNCHANGED << progVars, chan_in, chan_width >>

\* the x-directed channels between the io channels, when ny > 1
IC_XList ==
    /\ chan_pc = "x_list"
    /\ ~(chan_in.ny > 1 /\ UnknownKind(chan_in.chan_x_dist))
    /\ \E l \in FilledLists(chan_width.x_list, chan_in.cfactor,
                            chan_in.chan_x_dist, chan_in.ny) :
         chan_width' = [chan_width EXCEPT !.x_list = l]
    /\ chan_pc' = "y_list"
    /\ UNCHANGED << progVars, chan_in >>

\* the y-directed channels between the io channels, when nx > 1
IC_YList ==
    /\ chan_pc = "y_list"
    /\ ~(chan_in.nx > 1 /\ UnknownKind(chan_in.chan_y_dist))
    /\ \E l \in FilledLists(chan_width.y_list, chan_in.cfactor,
                            chan_in.chan_y_dist, chan_in.nx) :
         chan_width' = [chan_width EXCEPT !.y_list = l]
    /\ chan_pc' = "aggregates"
    /\ UNCHANGED << progVars, chan_in >>

RECURSIVE ListMax(_, _, _)
\* max of acc and list[0 .. n], as the loop folds it
ListMax(list, n, acc) ==
    IF n < 0 THEN acc ELSE Max(ListMax(list, n - 1, acc), list[n])

RECURSIVE ListMin(_, _, _)
ListMin(list, n, acc) ==
    IF n < 0 THEN acc ELSE Min(ListMin(list, n - 1, acc), list[n])

\* the cached maxima and minima
IC_Aggregates ==
    /\ chan_pc = "aggregates"
    /\ chan_width' =
         [chan_width EXCEPT
            !.max = ListMax(chan_width.y_list, chan_in.nx,
                            ListMax(chan_width.x_list, chan_in.ny, 0)),
            !.x_max = ListMax(chan_width.x_list, chan_in.ny, INT_MIN),
            !.y_max = ListMax(chan_width.y_list, chan_in.nx, INT_MIN),
            !.x_min = ListMin(chan_width.x_list, chan_in.ny, INT_MAX),
            !.y_min = ListMin(chan_width.y_list, chan_in.nx, INT_MAX)]
    /\ chan_pc' = "done"
    /\ UNCHANGED << progVars, chan_in >>

ChanNext ==
    \/ IC_IoChannels
    \/ IC_Throw
    \/ IC_XList
    \/ IC_YList
    \/ IC_Aggregates

\* init_chan called on every input of ChanInputs
ChanSpec == ChanInit /\ [][ChanNext]_vars

(* ------------------------------------------------------------------ *)
(* Properties                                                          *)
(* ------------------------------------------------------------------ *)

\* the route trials of the search (trial loop and verification pass)
SearchRoutes ==
    { i \in DOMAIN calls : /\ calls[i].op = "try_route"
                           /\ calls[i].ph \in {"loop", "verify"} }

\* the placement and route evaluations of the search
SearchEvaluations ==
    { i \in DOMAIN calls : /\ calls[i].op \in {"try_route", "try_place"}
                           /\ calls[i].ph \in {"loop", "verify"} }

SuccessfulWidths == { calls[i].w : i \in { j \in SearchRoutes : calls[j].ok } }

FailedWidths == { calls[i].w : i \in { j \in SearchRoutes : ~calls[j].ok } }

VerifySuccesses ==
    { i \in SearchRoutes : calls[i].ph = "verify" /\ calls[i].ok }

\* the search was entered: by place_and_route, or called directly
SearchEntered ==
    /\ pc \notin {"par_place", "par_route", "bs_entry"}
    /\ \/ opts.entry = "binary_search"
       \/ (opts.doRouting /\ ~Fixed)

\* C1: when binary_search_place_and_route returns final >= 1, final is the
\* upper bound at loop exit or the last successful probe of the verification
\* pass, it is the smallest width any route trial of the call succeeded at,
\* and the snapshot restored into the live routing was saved by the trial
\* routed at exactly width final.
C1_ReturnsBestTrial ==
    (pc = "bs_return" /\ final >= 1) =>
        /\ IF VerifySuccesses = {}
           THEN final = high
           ELSE \E i \in VerifySuccesses :
                  /\ calls[i].w = final
                  /\ \A j \in VerifySuccesses : j <= i
        /\ final \in SuccessfulWidths
        /\ \A w \in SuccessfulWidths : final <= w
        /\ routing = best_routing
        /\ routing.w = final /\ routing.ok
        /\ routing.id \in SearchRoutes
        /\ calls[routing.id].w = final /\ calls[routing.id].ok
        /\ \E i \in DOMAIN calls : /\ calls[i].op = "restore_routing"
                                   /\ calls[i].w = final

\* C1 witness: a search returned a width found by the verification pass, below
\* the trial loop's upper bound, after a failure at a larger width.
C1_Witness ==
    /\ pc = "bs_return" /\ final >= 1
    /\ VerifySuccesses # {}
    /\ final < high
    /\ \E w \in FailedWidths : w > final
    /\ routing.w = final

\* C2 (as claimed): under a monotone router (success iff width >= T) the trial
\* loop of an unconstrained search (pin-count seed or hint) ends with
\* final = T.  Stated for the cases most favourable to the claim: no width is
\* below the Fs floor, and T is even under unidirectional routing.
C2_MonotoneConverges ==
    ( /\ pc = "after_loop"
      /\ oracle.flukeTop = 0
      /\ ~Fixed
      /\ 1 * FsDivisor >= opts.Fs
      /\ (opts.directionality = "UNI_DIRECTIONAL" => oracle.T % 2 = 0) )
    => final = oracle.T

\* C3: the trial loop always ends (final assigned, Fs-floor stop, or fatal
\* abort) and the verification pass always stops, whatever the router answers.
C3_SearchTerminates ==
    /\ (pc = "loop") ~> (pc \in {"after_loop", "fatal"})
    /\ (pc = "verify") ~> (pc = "exit")

\* C3 witness: a verification pass stopped after a trial loop in which the
\* router answered non-monotonically.
C3_Witness ==
    /\ pc = "exit"
    /\ opts.verify_binary_search
    /\ \E i \in SearchRoutes : calls[i].ph = "verify"
    /\ \E w \in FailedWidths : \E v \in SuccessfulWidths : v < w
    /\ attempt_count >= 3

\* C4 (as claimed): with placement policy "always", on return with final >= 1
\* the live placement is the one the placer produced at width final.
C4_PlacementIsBest ==
    ( /\ pc = "bs_return"
      /\ opts.entry = "place_and_route"
      /\ opts.place_freq = "PLACE_ALWAYS"
      /\ opts.doPlacement
      /\ oracle.flukeTop = 0
      /\ final >= 1 )
    => placement = [by |-> "try_place", w |-> final]

\* C5: under unidirectional routing every width the search places or routes
\* at, in the trial loop and in the verification pass, is even.
C5_UnidirEvaluationsEven ==
    (opts.directionality = "UNI_DIRECTIONAL") =>
        \A i \in SearchEvaluations : calls[i].w % 2 = 0

\* C5 witness: a unidirectional search with placement per trial has evaluated
\* widths in the trial loop and in the verification pass.
C5_Witness ==
    /\ opts.directionality = "UNI_DIRECTIONAL"
    /\ opts.place_freq = "PLACE_ALWAYS"
    /\ \E i \in SearchEvaluations : calls[i].ph = "verify"
    /\ Cardinality({ calls[i].w : i \in SearchEvaluations }) >= 4

\* C6: in the trial loop, when a bound update leaves both bounds known with
\* high - low > mult, the next current is strictly between low and high and a
\* multiple of mult.
C6_NextCurrentBetween ==
    ( /\ pc \in {"loop", "after_loop"}
      /\ attempt_count >= 1
      /\ low # UNKNOWN /\ high # UNKNOWN
      /\ low < high
      /\ high - low > udsd_multiplier )
    => /\ low < current
       /\ current < high
       /\ current % udsd_multiplier = 0

\* C6 witness: both bounds known and more than one parity step apart, under
\* unidirectional routing, and the loop goes on.
C6_Witness ==
    /\ pc = "loop"
    /\ attempt_count >= 2
    /\ low # UNKNOWN /\ high # UNKNOWN
    /\ high - low > udsd_multiplier
    /\ opts.directionality = "UNI_DIRECTIONAL"
    /\ low < current /\ current < high

\* C7 (as claimed): in the trial loop, whenever low, high and final are all
\* known, low < final <= high.
C7_FinalWithinBounds ==
    ( /\ pc \in {"loop", "after_loop"}
      /\ low # UNKNOWN /\ high # UNKNOWN /\ final # UNKNOWN )
    => (low < final /\ final <= high)

\* the evaluations the trial loop made
LoopEvaluations == { i \in SearchEvaluations : calls[i].ph = "loop" }

\* C8: the trial loop never places or routes at a width above 1000
\* (unconstrained) or above 4 * W (fixed width W); at such a width the
\* iteration aborts fatally before any work.
C8_NoTrialAboveCeiling ==
    /\ \A i \in LoopEvaluations :
         IF Fixed THEN calls[i].w <= 4 * opts.fixed_channel_width
                  ELSE calls[i].w <= 1000
    /\ ( /\ pc = "loop"
         /\ IF Fixed THEN current > 4 * opts.fixed_channel_width
                     ELSE current > 1000 )
       => (ENABLED BS_CeilingThrow /\ ~ENABLED BS_Trial /\ ~ENABLED BS_FsBreak)
    /\ ( /\ pc = "fatal"
         /\ fatal \in {"unroutable with the current router options",
                       "requires a channel width above 1000"} )
       => \A i \in LoopEvaluations : calls[i].w < current

\* C8 witness: an unconstrained search was aborted at a width above 1000 after
\* trials at smaller widths.
C8_Witness ==
    /\ pc = "fatal"
    /\ ~Fixed
    /\ current > 1000
    /\ attempt_count >= 5
    /\ \A i \in LoopEvaluations : calls[i].w <= 1000

\* the entry constraints as the claim states them
EntryMustAbort ==
    IF opts.directionality = "UNI_DIRECTIONAL"
    THEN (IF Fixed
          THEN opts.fixed_channel_width + 5 * 2
          ELSE IF opts.min_chan_width_hint > 0
               THEN opts.min_chan_width_hint
               ELSE opts.max_pins_per_clb + (opts.max_pins_per_clb % 2)) % 2 = 1
    ELSE opts.Fs % 3 # 0

\* C9: binary_search_place_and_route aborts fatally at entry, before any
\* placement or routing trial, when the initial current is odd under
\* unidirectional routing or Fs % 3 # 0 under bidirectional routing.
C9_EntryRejected ==
    (SearchEntered /\ EntryMustAbort) =>
        /\ pc = "fatal"
        /\ SearchEvaluations = {}
        /\ attempt_count = 0

\* C9 witness: a hint-seeded unidirectional search was rejected at entry for
\* its odd width.
C9_Witness ==
    /\ SearchEntered
    /\ pc = "fatal"
    /\ opts.directionality = "UNI_DIRECTIONAL"
    /\ opts.min_chan_width_hint > 0
    /\ current % 2 = 1

\* the calls that build a routing-resource graph or route
GraphOrRouteCalls ==
    { i \in DOMAIN calls :
        calls[i].op \in {"try_graph", "try_route", "build_rr_graph"} }

\* place_and_route was given an odd fixed width under unidirectional routing
\* and is past its placement step and its routing decision
OddFixedUnidirDecided ==
    /\ opts.entry = "place_and_route"
    /\ Fixed
    /\ opts.fixed_channel_width % 2 = 1
    /\ opts.directionality = "UNI_DIRECTIONAL"
    /\ pc \notin {"par_place", "par_route"}

\* C10 (as claimed): for every odd fixed width under unidirectional routing
\* place_and_route aborts fatally without building a resource graph or routing.
C10_OddFixedAborts ==
    OddFixedUnidirDecided => (pc = "fatal" /\ GraphOrRouteCalls = {})

\* C10 (amended): with routing enabled, place_and_route given an odd fixed
\* width under unidirectional routing aborts fatally right after its placement
\* step, without building a resource graph or routing; with routing disabled
\* it builds the graph at that width and returns true.
C10_OddFixedAbortsWhenRouting ==
    OddFixedUnidirDecided =>
        IF opts.doRouting
        THEN /\ pc = "fatal"
             /\ GraphOrRouteCalls = {}
             /\ channel_width = opts.fixed_channel_width
        ELSE /\ pc = "par_done" /\ par_success
             /\ \E i \in GraphOrRouteCalls :
                  /\ calls[i].op = "try_graph"
                  /\ calls[i].w = opts.fixed_channel_width

\* C10 witness: place_and_route with routing enabled was aborted for the odd
\* fixed width 7 under unidirectional routing.
C10_Witness ==
    /\ OddFixedUnidirDecided
    /\ opts.doRouting
    /\ opts.fixed_channel_width = 7
    /\ pc = "fatal"

SearchEnded ==
    /\ SearchEntered
    /\ pc \in {"bs_return", "par_done", "fatal"}

\* C12 (as claimed): a search in which no trial records a success does not
\* end with a fatal abort; it returns the unknown width.  Stated for searches
\* started by place_and_route that passed the entry checks and ran at least
\* one trial, under a monotone router.
C12_NoSuccessIsNonFatal ==
    ( /\ SearchEnded
      /\ opts.entry = "place_and_route"
      /\ oracle.flukeTop = 0
      /\ attempt_count >= 1
      /\ SuccessfulWidths = {} )
    => (pc # "fatal" /\ final = UNKNOWN)

\* C12 (amended): a search in which no trial records a success returns
\* normally only when the Fs floor stops the trial loop before its first trial;
\* it then returns the unknown width -1, after the exit sequence at that width,
\* and place_and_route reports success = false.  In every other case it ends
\* with a fatal abort: at entry, at the ceiling, or in the W + 30 sub-search.
C12_NoSuccessOutcome ==
    (SearchEnded /\ SuccessfulWidths = {})
    => IF 3 * current < opts.Fs /\ ~OverCeiling(current, opts)
          /\ EntryThrow(opts) = "" /\ SeedCurrent(opts) > 0
       THEN /\ pc # "fatal"
            /\ attempt_count = 0
            /\ final = UNKNOWN /\ high = UNKNOWN
            /\ SearchRoutes = {}
            /\ chan_width_fac = UNKNOWN
            /\ (pc = "par_done" => (~par_success /\ channel_width = UNKNOWN))
       ELSE /\ pc = "fatal"
            /\ fatal \in
                 {"Tried odd chan width in uni-directional routing architecture",
                  "Fs must be three in bidirectional mode",
                  "VTR_ASSERT(current > 0)",
                  "unroutable with the current router options",
                  "requires a channel width above 1000",
                  "Wneed = f(Fs) search found exceedingly large Wneed"}

\* C12 witness: place_and_route got the unknown width from a search that the
\* Fs floor stopped before any trial, and reported failure.
C12_Witness ==
    /\ pc = "par_done"
    /\ SearchEntered
    /\ SuccessfulWidths = {}
    /\ 3 * current < opts.Fs
    /\ channel_width = UNKNOWN
    /\ ~par_success

\* C13: binary_search_place_and_route returns a width >= 1 or the sentinel
\* -1, never 0 or another non-positive value, and place_and_route takes the
\* returned width for its channel width and reports success exactly when it
\* is > 0.
C13_ReturnedWidth ==
    /\ (SearchEntered /\ pc \in {"bs_return", "par_done"})
       => (final >= 1 \/ final = -1)
    /\ (SearchEntered /\ pc = "par_done")
       => /\ channel_width = final
          /\ par_success <=> (channel_width > 0)

\* C13 witness: place_and_route reported success for the returned width 1, the
\* search having been stopped by the Fs floor at current = 0.
C13_Witness ==
    /\ SearchEntered
    /\ pc = "par_done"
    /\ par_success
    /\ channel_width = 1
    /\ current = 0

\* C14 (as claimed): a trial of the loop that the router answers with success
\* and clipped output-pin fan-out updates the search state as a failed trial
\* does: low := current, high and the best snapshot unchanged, the next
\* current that of a failure, and the trial does not count as a success.
\* Stated for the searches started by place_and_route.
C14_ClippedSuccessIsFailure ==
    [][ ( /\ pc = "loop"
          /\ opts.entry = "place_and_route"
          /\ attempt_count' = attempt_count + 1
          /\ routing'.ok
          /\ RouteClipped(current) )
        => /\ low' = current
           /\ high' = high
           /\ best_routing' = best_routing
           /\ current' = OnFailure(current, low, high, final,
                                   udsd_multiplier, opts).current
           /\ ~success' ]_vars

\* the verification pass ran and stopped because its last two probes failed
VerifierStoppedOnFailures ==
    /\ SearchEntered
    /\ opts.verify_binary_search
    /\ pc \in {"exit", "bs_return", "par_done"}
    /\ ~prev_success /\ ~prev2_success

\* C15 (as claimed): with verification enabled, when the verification pass
\* stops because two probes in a row failed (not at the floor), the widths
\* final - step and final - 2 * step (step 1 bidirectional, 2 unidirectional)
\* were both routed during the call and both failed.  Stated for the searches
\* started by place_and_route.
C15_TwoBelowFinalFailed ==
    (VerifierStoppedOnFailures /\ opts.entry = "place_and_route")
    => /\ (final - ProbeStep(opts.directionality)) \in FailedWidths
       /\ (final - 2 * ProbeStep(opts.directionality)) \in FailedWidths

\* the route trials of the verification pass, and the widths of those that
\* failed and of those that succeeded
VerifyRoutes == { i \in SearchRoutes : calls[i].ph = "verify" }

VerifyFailedWidths == { calls[i].w : i \in { j \in VerifyRoutes : ~calls[j].ok } }

VerifySucceededWidths == { calls[i].w : i \in VerifySuccesses }

\* the verification pass of a bidirectional search is over; the trial loop's
\* result is still in high
BidirVerifierDone ==
    /\ SearchEntered
    /\ opts.verify_binary_search
    /\ opts.directionality = "BI_DIRECTIONAL"
    /\ pc \in {"exit", "bs_return", "par_done"}

\* C16 (as claimed): bidirectional routing, trial loop result f.  When the
\* verification pass ends with final = f unchanged after two failed probes,
\* these probes were at f - 2 and f - 1.  Stated for the searches started by
\* place_and_route.
C16_VerifierProbesOneBelow ==
    ( /\ BidirVerifierDone
      /\ opts.entry = "place_and_route"
      /\ final = high
      /\ Cardinality(VerifyRoutes) = 2 )
    => { calls[i].w : i \in VerifyRoutes } = {high - 2, high - 1}

\* C16 (amended): bidirectional routing, trial loop result f.  The verification
\* pass never probes f - 1: its probes start at f - 2 and go down.  If the
\* probes at f - 2 and f - 3 both fail, final = f is left unchanged and nothing
\* else is probed; if the probe at f - 2 succeeds and those at f - 3 and f - 4
\* fail, final becomes f - 2.
C16_VerifierProbesTwoBelow ==
    BidirVerifierDone =>
        /\ \A i \in VerifyRoutes : calls[i].w <= high - 2
        /\ (VerifyRoutes # {}) => \E i \in VerifyRoutes : calls[i].w = high - 2
        /\ ({high - 2, high - 3} \subseteq VerifyFailedWidths)
           => /\ final = high
              /\ { calls[i].w : i \in VerifyRoutes } = {high - 2, high - 3}
        /\ ( /\ (high - 2) \in VerifySucceededWidths
             /\ {high - 3, high - 4} \subseteq VerifyFailedWidths )
           => final = high - 2

\* C16 witness: the trial loop found 20 and the verification pass, after failed
\* probes at 18 and 17, left final = 20.
C16_Witness ==
    /\ BidirVerifierDone
    /\ opts.entry = "place_and_route"
    /\ high = 20
    /\ final = 20
    /\ VerifyFailedWidths = {18, 17}
    /\ VerifySucceededWidths = {}

\* the direct calls of the graph builder
BuildCalls == { i \in DOMAIN calls : calls[i].op = "build_rr_graph" }

\* C17: binary_search_place_and_route calls the graph builder itself exactly
\* once, in its exit sequence after the trial loop and the verification pass,
\* at width final; the restore of the best snapshot comes right after it and
\* the legality check right after the restore; before the exit sequence, and
\* when the search is aborted, the builder is not called.
C17_ExitSequenceOrder ==
    SearchEntered =>
        IF pc \in {"bs_return", "par_done"}
        THEN /\ Cardinality(BuildCalls) = 1
             /\ \A i \in BuildCalls :
                  /\ calls[i].w = final
                  /\ rr_graph = final
                  /\ \A j \in SearchRoutes : j < i
                  /\ i + 2 \in DOMAIN calls
                  /\ calls[i + 1].op = "restore_routing"
                  /\ calls[i + 1].w = best_routing.w
                  /\ calls[i + 2].op = "check_route"
                  /\ Cardinality({ j \in DOMAIN calls :
                        calls[j].op \in {"restore_routing", "check_route"} }) = 2
        ELSE BuildCalls = {}

\* C17 witness: the exit sequence ran once, at the width 6 the verification
\* pass had lowered final to, below the trial loop's result.
C17_Witness ==
    /\ SearchEntered
    /\ pc = "bs_return"
    /\ opts.verify_binary_search
    /\ final = 6
    /\ final < high
    /\ Cardinality(BuildCalls) = 1
    /\ routing.w = final

\* init_chan has returned
ChanDone == chan_pc = "done"

\* C18: after init_chan(F, dist) with F > 0 and chan_width_io >= 0 every entry
\* of x_list[0..ny] and y_list[0..nx] is >= 1; the entries 0 and ny (0 and nx)
\* hold the io channel width and the entries strictly between hold the width
\* computed from the axis' distribution at their position.
C18_EntriesAtLeastOne ==
    (ChanDone /\ chan_in.cfactor > 0 /\ chan_in.chan_width_io >= 0) =>
        /\ \A k \in 0 .. chan_in.ny : chan_width.x_list[k] >= 1
        /\ \A k \in 0 .. chan_in.nx : chan_width.y_list[k] >= 1
        /\ \A k \in {0, chan_in.ny} :
             chan_width.x_list[k] =
               IoWidth(chan_in.cfactor, chan_in.chan_width_io)
        /\ \A k \in {0, chan_in.nx} :
             chan_width.y_list[k] =
               IoWidth(chan_in.cfactor, chan_in.chan_width_io)
        /\ \A k \in 1 .. (chan_in.ny - 1) :
             chan_width.x_list[k] \in
               InteriorWidths(chan_in.cfactor, chan_in.chan_x_dist,
                              Position(k, chan_in.ny), Separation(chan_in.ny))
        /\ \A k \in 1 .. (chan_in.nx - 1) :
             chan_width.y_list[k] \in
               InteriorWidths(chan_in.cfactor, chan_in.chan_y_dist,
                              Position(k, chan_in.nx), Separation(chan_in.nx))

\* C18 witness: init_chan(3, dist) returned on a 5 x 4 grid with io channels
\* raised from 0 to 1 and a pulse giving x-directed channels of 1 and of 4.
C18_Witness ==
    /\ ChanDone
    /\ chan_in.cfactor = 3
    /\ chan_in.chan_width_io = 0
    /\ chan_in.ny = 5 /\ chan_in.nx = 4
    /\ chan_in.chan_x_dist.type = "PULSE"
    /\ chan_width.x_list[0] = 1
    /\ chan_width.x_list[1] = 1
    /\ chan_width.x_list[3] = 4
    /\ chan_width.y_list[4] = 1

\* C19 (as claimed): for every input, once the io channels are set, the entries
\* 0 and ny of x_list and 0 and nx of y_list are
\* max(1, floor(F * chan_width_io + 0.5)).
C19_IoWidthFlooredAtOne ==
    (chan_pc \in {"x_list", "y_list", "aggregates", "done", "fatal"}) =>
        \A v \in { chan_width.x_list[0], chan_width.x_list[chan_in.ny],
                   chan_width.y_list[0], chan_width.y_list[chan_in.nx] } :
          v = Max(1, (2 * chan_in.cfactor * chan_in.chan_width_io + Grain)
                       \div (2 * Grain))

\* both axes have the uniform distribution with peak 1 and dc 0, and F = 1
UniformUnit ==
    /\ chan_in.cfactor = 1
    /\ chan_in.chan_x_dist.type = "UNIFORM"
    /\ chan_in.chan_x_dist.peak = 1 * Grain /\ chan_in.chan_x_dist.dc = 0
    /\ chan_in.chan_y_dist.type = "UNIFORM"
    /\ chan_in.chan_y_dist.peak = 1 * Grain /\ chan_in.chan_y_dist.dc = 0

\* C20 (as claimed): init_chan with F = 1 and uniform distributions with
\* peak 1, dc 0 on both axes gives 1 at every interior entry, whatever nx and
\* ny, and floor(chan_width_io + 0.5) at every boundary entry.
C20_UniformUnit ==
    (ChanDone /\ UniformUnit) =>
        /\ \A k \in 1 .. (chan_in.ny - 1) : chan_width.x_list[k] = 1
        /\ \A k \in 1 .. (chan_in.nx - 1) : chan_width.y_list[k] = 1
        /\ \A v \in { chan_width.x_list[0], chan_width.x_list[chan_in.ny],
                      chan_width.y_list[0], chan_width.y_list[chan_in.nx] } :
             v = (2 * chan_in.chan_width_io + Grain) \div (2 * Grain)

\* C20 (amended): init_chan with F = 1 and uniform distributions with peak 1,
\* dc 0 on both axes gives 1 at every interior entry, whatever nx and ny, and
\* max(1, floor(chan_width_io + 0.5)) at every boundary entry.
C20_UniformUnitFloored ==
    (ChanDone /\ UniformUnit) =>
        /\ \A k \in 1 .. (chan_in.ny - 1) : chan_width.x_list[k] = 1
        /\ \A k \in 1 .. (chan_in.nx - 1) : chan_width.y_list[k] = 1
        /\ \A v \in { chan_width.x_list[0], chan_width.x_list[chan_in.ny],
                      chan_width.y_list[0], chan_width.y_list[chan_in.nx] } :
             v = Max(1, (2 * chan_in.chan_width_io + Grain) \div (2 * Grain))

\* C20 witness: F = 1, uniform peak 1 on a 5 x 5 grid, chan_width_io = 1.5:
\* interior entries 1, boundary entries 2.
C20_Witness ==
    /\ ChanDone /\ UniformUnit
    /\ chan_in.nx = 5 /\ chan_in.ny = 5
    /\ chan_in.chan_width_io = 6
    /\ chan_width.x_list[0] = 2 /\ chan_width.x_list[5] = 2
    /\ chan_width.x_list[3] = 1 /\ chan_width.y_list[2] = 1

\* C21: comp_width reached with a profile kind other than uniform, gaussian,
\* pulse or delta (the extent of the axis is > 1) ends init_chan with a fatal
\* error; no channel width is produced: chan_width is left as it was, and the
\* aggregates are never computed.
C21_UnknownKindIsFatal ==
    /\ [][ ( \/ /\ chan_pc = "x_list" /\ chan_in.ny > 1
                /\ chan_in.chan_x_dist.type
                     \notin {"UNIFORM", "GAUSSIAN", "PULSE", "DELTA"}
             \/ /\ chan_pc = "y_list" /\ chan_in.nx > 1
                /\ chan_in.chan_y_dist.type
                     \notin {"UNIFORM", "GAUSSIAN", "PULSE", "DELTA"} )
           => (chan_pc' = "fatal" /\ chan_width' = chan_width) ]_vars
    /\ []( ( /\ chan_pc \in {"aggregates", "done"}
             /\ chan_in.nx > 1 /\ chan_in.ny > 1 )
           => /\ chan_in.chan_x_dist.type
                   \in {"UNIFORM", "GAUSSIAN", "PULSE", "DELTA"}
              /\ chan_in.chan_y_dist.type
                   \in {"UNIFORM", "GAUSSIAN", "PULSE", "DELTA"} )

\* C21 witness: init_chan was aborted in comp_width for the y-directed
\* channels, after the x-directed channels were filled from a pulse; no
\* y-directed interior channel got a width.
C21_Witness ==
    /\ chan_pc = "fatal"
    /\ chan_in.chan_x_dist.type = "PULSE"
    /\ chan_in.chan_y_dist.type = "OTHER"
    /\ chan_in.ny = 3 /\ chan_in.nx = 3
    /\ chan_width.x_list[1] >= 1
    /\ chan_width.y_list[1] = 0 /\ chan_width.y_list[2] = 0
    /\ chan_width.max = 0

\* the search passed its entry checks and has made no trial yet
SearchSeeded ==
    /\ SearchEntered
    /\ pc = "loop"
    /\ attempt_count = 0

\* C22: when the trial loop starts, high and final are unknown and, with
\* mult = 1 (bidirectional) or 2 (unidirectional): with a fixed width W,
\* current = W + 5 * mult and low = W - mult; otherwise with a hint H > 0,
\* current = H, low is unknown and the hint flag is set; otherwise current is
\* the largest block pin count rounded up to even, whatever the
\* directionality, and low is unknown.  The hint flag is set in no other case.
C22_SearchInitialization ==
    SearchSeeded =>
        LET mult == IF opts.directionality = "BI_DIRECTIONAL" THEN 1 ELSE 2
            W == opts.fixed_channel_width
            H == opts.min_chan_width_hint
            pins == opts.max_pins_per_clb
        IN  /\ high = -1 /\ final = -1
            /\ udsd_multiplier = mult
            /\ IF W # -1
               THEN current = W + 5 * mult /\ low = W - mult
                    /\ ~using_minw_hint
               ELSE IF H > 0
                    THEN current = H /\ low = -1 /\ using_minw_hint
                    ELSE /\ current = (IF pins % 2 = 0 THEN pins ELSE pins + 1)
                         /\ low = -1
                         /\ ~using_minw_hint

\* C22 witness: a bidirectional search with no fixed width and no hint starts
\* at 4, the largest pin count 3 rounded up to even.
C22_Witness ==
    /\ SearchSeeded
    /\ opts.directionality = "BI_DIRECTIONAL"
    /\ ~Fixed
    /\ opts.min_chan_width_hint = NoHint
    /\ opts.max_pins_per_clb = 3
    /\ current = 4
    /\ low = -1 /\ high = -1 /\ final = -1

\* C23: the width after a trial of the loop is computed with the scale factor
\* 1.1 exactly when the trial is trial number 1 of a hint-seeded search and it
\* succeeded (the first contraction), and with 2 in every other update that
\* scales: (high + low) / factor, or high / factor while low is unknown, after
\* a success; (high + low) / 2 after a failure with high known; low * 2 after
\* a failure of an unconstrained search with high unknown.  The quotient is
\* cut to an integer (toward zero) and only then rounded to the parity step:
\* q + q mod mult.
C23_ScaleFactor ==
    [][ (pc = "loop" /\ attempt_count' = attempt_count + 1 /\ fatal' = "")
        => LET ok == routing'.ok
               tenths == IF using_minw_hint /\ attempt_count' = 1 /\ ok
                         THEN 11 ELSE 20
               q == IF ok
                    THEN IF low # -1
                         THEN ((current + low) * 10) \div tenths
                         ELSE (current * 10) \div tenths
                    ELSE IF high # -1
                         THEN ((high + current) * 10) \div 20
                         ELSE IF Fixed
                              THEN current + 5 * udsd_multiplier
                              ELSE (current * 20) \div 10
           IN  current' = q + (q % udsd_multiplier) ]_vars

\* C23 witness: a hint-seeded bidirectional search routed at the hint 13, went
\* on at 11 = (int)(13 / 1.1), routed there and went on at 5 = (int)(11 / 2).
C23_Witness ==
    /\ pc = "loop"
    /\ using_minw_hint
    /\ opts.min_chan_width_hint = 13
    /\ opts.directionality = "BI_DIRECTIONAL"
    /\ attempt_count = 2
    /\ SuccessfulWidths = {13, 11}
    /\ high = 11 /\ low = -1
    /\ current = 5

\* C24 (as claimed): a trial of the loop assigns final only when, after its
\* bound update, high - low <= mult; the only other assignment of final in the
\* loop is the Fs-floor stop.  Stated for the searches started by
\* place_and_route.
C24_FinalOnlyWithinStep ==
    [][ ( /\ pc = "loop"
          /\ opts.entry = "place_and_route"
          /\ attempt_count' = attempt_count + 1
          /\ final' # final )
        => (high' - low' <= udsd_multiplier) ]_vars

\* C25: a trial of the loop at which the router fails sets low to the width
\* tried and leaves high and the best snapshot as they were; a trial at which
\* it succeeds sets high to the width tried, makes the best snapshot a copy of
\* the live routing of that trial (nothing of the old snapshot is kept), and
\* leaves low as it was.
C25_TrialFrame ==
    [][ (pc = "loop" /\ attempt_count' = attempt_count + 1)
        => /\ routing'.w = current
           /\ IF routing'.ok
              THEN /\ high' = current
                   /\ low' = low
                   /\ best_routing' = routing'
                   /\ calls'[Len(calls')] =
                        [op |-> "save_routing", w |-> current, ok |-> TRUE,
                         ph |-> "loop"]
              ELSE /\ low' = current
                   /\ high' = high
                   /\ best_routing' = best_routing
                   /\ calls'[Len(calls')].op = "try_route" ]_vars

\* C25 witness: the loop goes on after a failed trial at 5 below a successful
\* one at 10: low = 5, high = 10, the snapshot is still the routing at 10 while
\* the live routing is the failed one at 5.
C25_Witness ==
    /\ pc = "loop"
    /\ attempt_count = 2
    /\ high = 10 /\ low = 5
    /\ best_routing.w = 10 /\ best_routing.ok
    /\ routing.w = 5 /\ ~routing.ok

\* C26: in a search with a fixed width W, a trial of the loop that fails while
\* high is unknown sets low to the width tried and, when that is below W + 30,
\* goes on at low + 5 * mult; when it is not, the search is aborted fatally.
\* No placement or route trial of the search is at a width above W + 30.
C26_WneedSearch ==
    /\ []( (SearchEntered /\ Fixed)
           => \A i \in SearchEvaluations :
                calls[i].w <= opts.fixed_channel_width + 30 )
    /\ [][ ( /\ pc = "loop"
             /\ Fixed
             /\ high = -1
             /\ attempt_count' = attempt_count + 1
             /\ ~routing'.ok )
           => /\ low' = current
              /\ high' = -1 /\ final' = -1
              /\ IF current < opts.fixed_channel_width + 30
                 THEN /\ current' = current + 5 * udsd_multiplier
                      /\ pc' = "loop"
                 ELSE /\ pc' = "fatal"
                      /\ fatal' =
                           "Wneed = f(Fs) search found exceedingly large Wneed"
            ]_vars

\* C26 witness: the bidirectional search with the fixed width 12 failed at 17,
\* 22, 27, 32, 37 and 42 = W + 30 and was aborted there.
C26_Witness ==
    /\ pc = "fatal"
    /\ opts.fixed_channel_width = 12
    /\ opts.directionality = "BI_DIRECTIONAL"
    /\ FailedWidths = {17, 22, 27, 32, 37, 42}
    /\ low = 42 /\ high = -1
    /\ fatal = "Wneed = f(Fs) search found exceedingly large Wneed"

\* the calls of the placer
PlacerCalls == { i \in DOMAIN calls : calls[i].op = "try_place" }

\* the route trial i of the search has the placer run right before it, at its
\* width
PlacedRightBefore(i) ==
    /\ (i - 1) \in PlacerCalls
    /\ calls[i - 1].w = calls[i].w
    /\ calls[i - 1].ph = calls[i].ph

\* C27 (as claimed): in a place_and_route call, a route trial of the search
\* (trial loop or verification pass) has the placer run right before it, at
\* the trial's width, if and only if the placement policy is "always"; under
\* the policy "once" the placer runs exactly once, before the first route
\* trial; under "never", or with placement disabled, the placer never runs.
C27_PlacementPolicy ==
    (opts.entry = "place_and_route" /\ pc # "par_place") =>
        /\ \A i \in SearchRoutes :
             PlacedRightBefore(i) <=> (opts.place_freq = "PLACE_ALWAYS")
        /\ (opts.place_freq = "PLACE_ONCE" /\ opts.doPlacement)
           => /\ Cardinality(PlacerCalls) = 1
              /\ \A i \in PlacerCalls :
                   \A j \in DOMAIN calls :
                     calls[j].op = "try_route" => i < j
        /\ (opts.place_freq = "PLACE_NEVER" \/ ~opts.doPlacement)
           => PlacerCalls = {}

\* the route trials of the call, of place_and_route itself and of the search
RouteCalls == { i \in DOMAIN calls : calls[i].op = "try_route" }

\* the legality checks of the call
CheckCalls == { i \in DOMAIN calls : calls[i].op = "check_route" }

\* place_and_route, routing enabled, is past its routing decision
RoutingDecided ==
    /\ opts.entry = "place_and_route"
    /\ opts.doRouting
    /\ pc \notin {"par_place", "par_route"}

\* the binary search was called (and, past its entry, its locals are set), and
\* what it did is all the routing the call did
InBinarySearch ==
    /\ (pc = "bs_entry" \/ udsd_multiplier # 0)
    /\ \A i \in RouteCalls : calls[i].ph \in {"loop", "verify"}

\* one route trial at the fixed width and no search, the legality check run
\* iff the trial succeeded, the trial's outcome returned
OnePassRoute ==
    /\ pc = "par_done"
    /\ udsd_multiplier = 0 /\ attempt_count = 0
    /\ SearchEvaluations = {}
    /\ Cardinality(RouteCalls) = 1
    /\ \A i \in RouteCalls :
         /\ calls[i].w = opts.fixed_channel_width
         /\ par_success = calls[i].ok
         /\ IF calls[i].ok
            THEN /\ Cardinality(CheckCalls) = 1
                 /\ \A j \in CheckCalls : j > i
            ELSE CheckCalls = {}

\* C28 (as claimed): place_and_route with routing enabled enters the binary
\* search if and only if no fixed channel width is given; with a fixed width W
\* it makes exactly one route trial, at W, and no search, runs the legality
\* check only if that trial succeeded, and returns the trial's outcome.
C28_FixedRoutesOnce ==
    RoutingDecided =>
        IF Fixed THEN OnePassRoute ELSE InBinarySearch

\* C28 (amended): as claimed, except that with an odd fixed width under
\* unidirectional routing place_and_route aborts fatally before any route
\* trial and returns nothing.
C28_FixedRoutesOnceIfLegal ==
    RoutingDecided =>
        IF ~Fixed
        THEN InBinarySearch
        ELSE IF /\ opts.directionality = "UNI_DIRECTIONAL"
                /\ opts.fixed_channel_width % 2 # 0
             THEN /\ pc = "fatal"
                  /\ udsd_multiplier = 0
                  /\ RouteCalls = {} /\ CheckCalls = {}
             ELSE OnePassRoute

\* C28 witness: place_and_route with the fixed width 12 under unidirectional
\* routing made its one route trial, which failed, ran no legality check and
\* returned false.
C28_Witness ==
    /\ RoutingDecided
    /\ opts.fixed_channel_width = 12
    /\ opts.directionality = "UNI_DIRECTIONAL"
    /\ pc = "par_done"
    /\ ~par_success
    /\ routing.w = 12 /\ ~routing.ok
    /\ CheckCalls = {}

\* the last two probes of the verification pass both failed
LastTwoProbesFailed ==
    \E i, j \in VerifyRoutes :
        /\ i < j
        /\ ~calls[i].ok /\ ~calls[j].ok
        /\ \A k \in VerifyRoutes : k <= j /\ (k < j => k <= i)

\* the next probe would be below the floor: 1, or W in fixed-width mode
ProbeBelowFloor ==
    \/ current < 1
    \/ (Fixed /\ current < opts.fixed_channel_width)

\* C29: the verification pass starts its probe at final - 2; each probe routes
\* at the probe width, which is >= 1 and (fixed-width mode) >= W, sets final
\* to that width and overwrites the best snapshot with the probe's routing when
\* it succeeds, changes neither when it fails, and then lowers the probe by 1
\* (bidirectional) or 2 (unidirectional); the pass stops exactly when the last
\* two probes both failed or the next probe is below the floor, so it ends
\* with fewer than two probes only at the floor.
C29_VerificationPass ==
    /\ [][ (pc = "after_loop" /\ opts.verify_binary_search)
           => (pc' = "verify" /\ current' = final - 2 /\ calls' = calls) ]_vars
    /\ [][ (pc = "verify")
           => IF LastTwoProbesFailed \/ ProbeBelowFloor
              THEN pc' = "exit" /\ calls' = calls /\ final' = final
                   /\ best_routing' = best_routing
              ELSE /\ pc' = "verify"
                   /\ routing'.w = current
                   /\ \E i \in DOMAIN calls' :
                        /\ i > Len(calls)
                        /\ calls'[i] = [op |-> "try_route", w |-> current,
                                        ok |-> routing'.ok, ph |-> "verify"]
                   /\ current' =
                        current - (IF opts.directionality = "BI_DIRECTIONAL"
                                   THEN 1 ELSE 2)
                   /\ IF routing'.ok
                      THEN final' = current /\ best_routing' = routing'
                      ELSE final' = final /\ best_routing' = best_routing
            ]_vars
    /\ []( \A i \in VerifyRoutes :
             /\ calls[i].w >= 1
             /\ Fixed => calls[i].w >= opts.fixed_channel_width )
    /\ []( ( /\ pc \in {"exit", "bs_return", "par_done"}
             /\ SearchEntered
             /\ opts.verify_binary_search
             /\ Cardinality(VerifyRoutes) < 2 )
           => ProbeBelowFloor )

\* C29 witness: a unidirectional verification pass made three probes, the
\* first successful and the last two failed, and lowered final by 2.
C29_Witness ==
    /\ pc = "exit"
    /\ opts.directionality = "UNI_DIRECTIONAL"
    /\ Cardinality(VerifyRoutes) = 3
    /\ LastTwoProbesFailed
    /\ final = high - 2
    /\ VerifySucceededWidths = {high - 2}
    /\ VerifyFailedWidths = {high - 4, high - 6}
    /\ best_routing.w = final
    /\ current = high - 8

\* the calls that hand the best snapshot to the restore operation
RestoreCalls == { i \in DOMAIN calls : calls[i].op = "restore_routing" }

\* the search returned to its caller
SearchReturned ==
    /\ SearchEntered
    /\ pc \in {"bs_return", "par_done"}

\* C30 (as claimed): in a search that returns, the best snapshot is handed to
\* the restore operation once at the end of the trial loop, and a second time
\* after the verification pass if that pass found a smaller width; once in
\* all otherwise.  Stated for the searches started by place_and_route.
C30_RestoredAgainAfterVerify ==
    (SearchReturned /\ opts.entry = "place_and_route") =>
        Cardinality(RestoreCalls) =
            IF opts.verify_binary_search /\ VerifySuccesses # {}
            THEN 2 ELSE 1

\* C30 (amended): a search that returns hands the best snapshot to the restore
\* operation exactly once, in its exit sequence: after the trial loop and after
\* every probe of the verification pass, whether or not that pass found a
\* smaller width, and also when no trial succeeded and no snapshot was saved.
\* Nothing is restored between the trial loop and the verification pass, nor
\* in a search that is aborted.
C30_RestoredOnceAtExit ==
    SearchEntered =>
        IF pc \in {"bs_return", "par_done"}
        THEN /\ Cardinality(RestoreCalls) = 1
             /\ \A i \in RestoreCalls :
                  /\ calls[i].ph = "exit"
                  /\ calls[i].w = best_routing.w
                  /\ \A j \in SearchRoutes : j < i
             /\ routing = best_routing
        ELSE RestoreCalls = {}

\* C30 witness: a search returned after its verification pass had found a
\* smaller width than the trial loop; the snapshot saved at that width was
\* restored, once.
C30_Witness ==
    /\ SearchReturned
    /\ opts.entry = "place_and_route"
    /\ opts.verify_binary_search
    /\ VerifySuccesses # {}
    /\ final < high
    /\ Cardinality(RestoreCalls) = 1
    /\ \A i \in RestoreCalls : calls[i].w = final
    /\ routing.w = final /\ routing.ok

\* the relative density the claim gives the interior channel k of an axis of
\* extent n, in units of 1 / Grain, computed in exact arithmetic:
\* p = (k - 1) / (n - 2), separation = 1 / (n - 2)
ClaimedDensity(chan, k, n) ==
    LET off == Grain * (k - 1) - chan.xpeak * (n - 2)
    IN  CASE chan.type = "UNIFORM" -> chan.peak
          [] chan.type = "PULSE" ->
               IF 2 * Abs(off) <= chan.width * (n - 2)
               THEN chan.peak + chan.dc ELSE chan.dc
          [] chan.type = "DELTA" ->
               IF 2 * off > 0 - Grain /\ 2 * off <= Grain
               THEN chan.peak + chan.dc ELSE chan.dc

\* the interior of list (extent n > 2, distribution chan) is as the claim says
InteriorAsClaimed(list, chan, n) ==
    (n > 2 /\ chan.type \in {"UNIFORM", "PULSE", "DELTA"}) =>
        \A k \in 1 .. (n - 1) :
          list[k] = Max(1, (2 * chan_in.cfactor * ClaimedDensity(chan, k, n)
                              + Grain) \div (2 * Grain))

\* C31 (as claimed): after init_chan, for an axis of extent d > 2 with a
\* uniform, pulse or delta distribution, the interior entry k (1 <= k <= d - 1)
\* is max(1, round_half_up(F * v(p))) at p = (k - 1) / (d - 2), with v = peak
\* for uniform, peak + dc if |p - xpeak| <= width / 2 else dc for pulse, and
\* peak + dc if p - xpeak is in (-separation / 2, separation / 2] else dc for
\* delta, separation = 1 / (d - 2).
C31_InteriorByProfile ==
    ChanDone =>
        /\ InteriorAsClaimed(chan_width.x_list, chan_in.chan_x_dist, chan_in.ny)
        /\ InteriorAsClaimed(chan_width.y_list, chan_in.chan_y_dist, chan_in.nx)

\* the largest and the smallest element of a non-empty set of integers
SetMax(S) == CHOOSE m \in S : \A e \in S : e <= m

SetMin(S) == CHOOSE m \in S : \A e \in S : m <= e

\* the entries of the two lists
XEntries == { chan_width.x_list[k] : k \in 0 .. chan_in.ny }

YEntries == { chan_width.y_list[k] : k \in 0 .. chan_in.nx }

\* C32 (as claimed): after init_chan returns, max is the maximum over all
\* entries of x_list[0..ny] and y_list[0..nx], x_max and x_min are the maximum
\* and the minimum of x_list[0..ny], and y_max and y_min those of
\* y_list[0..nx].
C32_AggregatesConsistent ==
    ChanDone =>
        /\ chan_width.max = SetMax(XEntries \cup YEntries)
        /\ chan_width.x_max = SetMax(XEntries)
        /\ chan_width.x_min = SetMin(XEntries)
        /\ chan_width.y_max = SetMax(YEntries)
        /\ chan_width.y_min = SetMin(YEntries)

\* C33 (as claimed): every width the search routes at, in the trial loop and
\* in the verification pass, satisfies 3 * width >= Fs.  Stated for the
\* searches started by place_and_route.
C33_NoRouteBelowFs ==
    (opts.entry = "place_and_route") =>
        \A i \in SearchRoutes : 3 * calls[i].w >= opts.Fs

\* the route trials of the trial loop, and the widths at which they failed
LoopRoutes == { i \in SearchRoutes : calls[i].ph = "loop" }

LoopFailedWidths == { calls[i].w : i \in { j \in LoopRoutes : ~calls[j].ok } }

\* C34 (as claimed): when the trial loop ends with final >= 1, the width
\* final - mult was routed and failed during the loop, or final - mult < 1, or
\* 3 * (final - mult) < Fs.  Stated for the searches started by
\* place_and_route.
C34_MinimalityEvidenced ==
    (pc = "after_loop" /\ final >= 1 /\ opts.entry = "place_and_route") =>
        \/ (final - udsd_multiplier) \in LoopFailedWidths
        \/ final - udsd_multiplier < 1
        \/ 3 * (final - udsd_multiplier) < opts.Fs

\* C35 (as claimed): the trial loop routes at no width more than once, and
\* after a successful trial the next width is strictly smaller than the width
\* that just succeeded.  Stated for the searches started by place_and_route.
C35_NoWidthRoutedTwice ==
    (opts.entry = "place_and_route") =>
        /\ \A i, j \in LoopRoutes : (calls[i].w = calls[j].w) => (i = j)
        /\ (pc = "loop" /\ attempt_count >= 1 /\ routing.ok)
           => current < routing.w

\* the widths at which the trial loop succeeded
LoopSucceededWidths == { calls[i].w : i \in { j \in LoopRoutes : calls[j].ok } }

\* C36: across the trial loop, whatever the router answers: a known high never
\* increases and stays known, a known low never decreases, every width routed
\* is above the low and at most the high known when it is routed, and
\* low <= high whenever both are known.
C36_BoundsMonotone ==
    /\ [][ (pc = "loop" /\ attempt_count' = attempt_count + 1)
           => /\ routing'.w = current
              /\ (high # -1) => (high' # -1 /\ high' <= high /\ current <= high)
              /\ (low # -1) => (low' >= low /\ low < current) ]_vars
    /\ [][ (pc = "loop" /\ attempt_count' = attempt_count)
           => (high' = high /\ low' = low) ]_vars
    /\ []( (SearchEntered /\ pc \in {"loop", "after_loop"}
              /\ low # -1 /\ high # -1)
           => low <= high )

\* C36 witness: a bidirectional search seeded with the hint 13 has narrowed
\* both bounds more than once (successes at 13, 11 and 8, failures at 5 and 6)
\* and goes on at 7 with low = 6 and high = 8.
C36_Witness ==
    /\ pc = "loop"
    /\ opts.min_chan_width_hint = 13
    /\ LoopSucceededWidths = {13, 11, 8}
    /\ LoopFailedWidths = {5, 6}
    /\ low = 6 /\ high = 8
    /\ current = 7

\* the calls of the exit sequence, and the saves of the best snapshot
ExitSequenceCalls == { i \in DOMAIN calls : calls[i].ph = "exit" }

SaveCalls == { i \in DOMAIN calls : calls[i].op = "save_routing" }

\* C37 (as claimed): the exit sequence of the search runs only when at least
\* one trial succeeded: init_chan is called with a width >= 1, and
\* restore_routing only after at least one save_routing.  Stated for the
\* searches started by place_and_route.
C37_ExitOnlyAfterSuccess ==
    (opts.entry = "place_and_route") =>
        \A i \in ExitSequenceCalls :
            /\ SuccessfulWidths # {}
            /\ (calls[i].op = "init_chan") => calls[i].w >= 1
            /\ (calls[i].op = "restore_routing")
               => \E j \in SaveCalls : j < i

\* C38: in unconstrained mode every value a bound update of the trial loop
\* assigns to current lies in 0..2000 (twice the ceiling of the routed
\* widths), so low * 2, (high + low) / scale and the rounding stay far inside
\* a machine integer.
C38_UpdatesWithinTwiceCeiling ==
    [][ (pc = "loop" /\ ~Fixed /\ attempt_count' = attempt_count + 1)
        => /\ current <= MaxUnconstrainedWidth
           /\ current' >= 0
           /\ current' <= 2 * MaxUnconstrainedWidth
           /\ 2 * MaxUnconstrainedWidth = 2000 ]_vars

\* an unconstrained search whose doubling after failures went past the
\* ceiling: the last update assigned a width above 1000
C38_Witness ==
    /\ pc = "loop"
    /\ ~Fixed
    /\ opts.entry = "place_and_route"
    /\ attempt_count >= 1
    /\ high = UNKNOWN
    /\ low <= MaxUnconstrainedWidth
    /\ current = 2 * low
    /\ current > MaxUnconstrainedWidth

====
